---- MODULE Spec2Model ----
(***************************************************************************)
(* AcquisitionOptimizerBase (emukit/core/optimization/                     *)
(* acquisition_optimizer.py): context validation, delegation to the        *)
(* abstract _optimize hook, rounding of the hook's location and            *)
(* re-evaluation of the acquisition when rounding moved the point.         *)
(*                                                                         *)
(* Lengths are in tenths of the parameter unit, so that the grid of        *)
(* spacing 1.0 over [0, 10] is 0, 10, ..., 100 and 3.4 is 34.              *)
(***************************************************************************)
EXTENDS Integers, Sequences, FiniteSets, TLC

\* ---------------------------------------------------------------- bounds
NumCalls == 2          \* optimize calls that may run on the one instance
MaxCtxLen == 2         \* entries of a context mapping

\* ------------------------------------------------- collaborators (external)
GridStep == 10
GridMax == 100

Grid == {g \in 0..GridMax : g % GridStep = 0}

\* ParameterSpace: two named parameters, each over [0, GridMax] on Grid
TheSpace == [parameter_names |-> <<"x", "y">>, min |-> 0, max |-> GridMax]

ParameterNames(sp) == {sp.parameter_names[i] : i \in DOMAIN sp.parameter_names}

\* space.convert_to_gpyopt_design_space()
ConvertToGpyoptDesignSpace(sp) ==
    [n \in ParameterNames(sp) |-> [lo |-> sp.min, hi |-> sp.max, step |-> GridStep]]

\* the valid encodings of the design space
ValidEncodings == {<<a, b>> : a \in Grid, b \in Grid}

Dist(a, b) == IF a >= b THEN a - b ELSE b - a

RoundCoord(v) == CHOOSE g \in Grid : \A h \in Grid : Dist(v, g) <= Dist(v, h)

\* space.round(vector): nearest valid encoding, coordinate by coordinate
SpaceRound(x) == [i \in DOMAIN x |-> RoundCoord(x[i])]

\* param.check_in_domain(value) -> bool
CheckInDomain(sp, name, value) == value >= sp.min /\ value <= sp.max

\* np.array_equal(a, b): same shape and element-wise equal
ArrayEqual(a, b) == Len(a) = Len(b) /\ \A i \in DOMAIN a : a[i] = b[i]

\* Acquisition objects.  "sum" is stateless; the result of "counting" changes
\* with every evaluate call made on it.
Acquisitions == {"sum", "counting"}
Stateless(acq) == acq = "sum"

\* acquisition.evaluate(x) when k evaluate calls were made on acq before
Evaluate(acq, k, x) ==
    IF acq = "sum" THEN x[1] + x[2] ELSE x[1] + x[2] + 1 + k

\* ContextManager(space, context, gpyopt_space)
ContextManager(sp, ctx, gs) ==
    [built |-> TRUE, space |-> sp, context |-> ctx, gpyopt_space |-> gs,
     fixed |-> {ctx.items[i][1] : i \in DOMAIN ctx.items}]

NullCM == [built |-> FALSE]

\* ------------------------------------------------------------------ inputs
Calls == 1..NumCalls
SoloCalls == {1}

CtxNames == {"x", "y", "z"}      \* "z" is not a parameter of the space
CtxValues == {30, 110}           \* 110 lies outside [0, GridMax]

RECURSIVE SeqsUpTo(_, _)
SeqsUpTo(S, n) ==
    IF n = 0 THEN {<<>>}
    ELSE LET shorter == SeqsUpTo(S, n - 1)
         IN  shorter \cup {Append(s, e) : s \in shorter, e \in S}

\* a dict has each key once; its iteration order is its insertion order
DistinctKeys(items) ==
    \A i, j \in DOMAIN items : i # j => items[i][1] # items[j][1]

ContextItems ==
    {s \in SeqsUpTo(CtxNames \X CtxValues, MaxCtxLen) : DistinctKeys(s)}

None == [given |-> FALSE, items |-> <<>>]
Given(items) == [given |-> TRUE, items |-> items]

Contexts == {None} \cup {Given(s) : s \in ContextItems}
ConcContexts == {None, Given(<<>>), Given(<<<<"x", 110>>>>)}

HookPoints == {<<30, 50>>, <<34, 50>>, <<30, 46>>, <<104, 50>>}
ConcHookPoints == {<<30, 50>>, <<34, 50>>}
HookValues == {80, 999}
HookFailures == {"RuntimeError", "LinAlgError"}
ConcEvalPoints == {<<34, 50>>}
ConcHookValues == {999}
ConcHookFailures == {"RuntimeError"}
ConcAcquisitions == {"sum", "counting"}

\* ------------------------------------------------------------------- state
VARIABLES
    space,            \* self.space
    gpyopt_space,     \* self.gpyopt_space
    acqState,         \* per acquisition object: evaluate calls made so far
    nextObj,          \* identity given to the next object dict() creates
    pc,               \* per call: position in optimize
    acquisition,      \* per call: argument acquisition
    ctxArg,           \* per call: argument context (None or a mapping)
    context,          \* per call: local context after lines 57-60
    vidx,             \* per call: position of the loop of line 23
    diag,             \* per call: records the call handed to _log
    context_manager,  \* per call: local context_manager
    hookCalls,        \* per call: invocations of self._optimize
    max_x,            \* per call: local max_x
    max_value,        \* per call: local max_value
    hookOut,          \* per call: what self._optimize handed back (pair or failure)
    roundArgs,        \* per call: arguments of space.round
    rounded_max_x,    \* per call: local rounded_max_x
    evalArgs,         \* per call: arguments of acquisition.evaluate made by optimize
    evalIndex,        \* per call: acquisition state seen by those evaluate calls
    result,           \* per call: the returned pair
    error             \* per call: the exception that left optimize

shared == <<space, gpyopt_space, acqState, nextObj>>
entryVars == <<acquisition, ctxArg, context>>
validVars == <<vidx, diag>>
hookVars == <<hookCalls, hookOut, max_x, max_value>>
postVars == <<roundArgs, rounded_max_x, evalArgs, evalIndex, result>>
vars == <<shared, pc, entryVars, validVars, context_manager, hookVars, postVars, error>>

NoError == [kind |-> "none", key |-> ""]
NoHookOut == [status |-> "none", x |-> <<>>, value |-> 0, failure |-> ""]
HookPair(x, v) == [status |-> "returned", x |-> x, value |-> v, failure |-> ""]
HookRaise(f) == [status |-> "raised", x |-> <<>>, value |-> 0, failure |-> f]
CallerObj == 0

Init ==
    /\ space = TheSpace
    /\ gpyopt_space = ConvertToGpyoptDesignSpace(TheSpace)
    /\ acqState = [a \in Acquisitions |-> 0]
    /\ nextObj = 1
    /\ pc = [c \in Calls |-> "idle"]
    /\ acquisition = [c \in Calls |-> "sum"]
    /\ ctxArg = [c \in Calls |-> None]
    /\ context = [c \in Calls |-> [id |-> CallerObj, items |-> <<>>]]
    /\ vidx = [c \in Calls |-> 1]
    /\ diag = [c \in Calls |-> <<>>]
    /\ context_manager = [c \in Calls |-> NullCM]
    /\ hookCalls = [c \in Calls |-> 0]
    /\ max_x = [c \in Calls |-> <<>>]
    /\ max_value = [c \in Calls |-> 0]
    /\ hookOut = [c \in Calls |-> NoHookOut]
    /\ roundArgs = [c \in Calls |-> <<>>]
    /\ rounded_max_x = [c \in Calls |-> <<>>]
    /\ evalArgs = [c \in Calls |-> <<>>]
    /\ evalIndex = [c \in Calls |-> <<>>]
    /\ result = [c \in Calls |-> <<>>]
    /\ error = [c \in Calls |-> NoError]

\* ----------------------------------------------------------------- actions
\* variant of Optimize: the empty mapping is a default argument value, one
\* object made at definition time and used by every call without a context
OptimizeSharedDefault(c, acq, ctx) ==
    /\ pc[c] = "idle"
    /\ acquisition' = [acquisition EXCEPT ![c] = acq]
    /\ ctxArg' = [ctxArg EXCEPT ![c] = ctx]
    /\ IF ~ctx.given
       THEN /\ context' = [context EXCEPT ![c] = [id |-> 1, items |-> <<>>]]
            /\ pc' = [pc EXCEPT ![c] = "build"]
       ELSE /\ context' = [context EXCEPT ![c] = [id |-> CallerObj, items |-> ctx.items]]
            /\ pc' = [pc EXCEPT ![c] = "validate"]
    /\ UNCHANGED <<shared, validVars, context_manager, hookVars, postVars, error>>

\* optimize, lines 57-60: entry and the resolution of the context
Optimize(c, acq, ctx) ==
    /\ pc[c] = "idle"
    /\ acquisition' = [acquisition EXCEPT ![c] = acq]
    /\ ctxArg' = [ctxArg EXCEPT ![c] = ctx]
    /\ IF ~ctx.given
       THEN /\ context' = [context EXCEPT ![c] = [id |-> nextObj, items |-> <<>>]]
            /\ nextObj' = nextObj + 1
            /\ pc' = [pc EXCEPT ![c] = "build"]
       ELSE /\ context' = [context EXCEPT ![c] = [id |-> CallerObj, items |-> ctx.items]]
            /\ nextObj' = nextObj
            /\ pc' = [pc EXCEPT ![c] = "validate"]
    /\ UNCHANGED <<space, gpyopt_space, acqState, validVars, context_manager,
                   hookVars, postVars, error>>

WarningRecord(name, value) ==
    [level |-> "WARNING", name |-> name, value |-> value,
     args |-> <<" is out of the domain">>]

InfoRecord(name, value) ==
    [level |-> "INFO", name |-> name, value |-> value, args |-> <<>>]

\* variant of ValidateEntry: a name that is not in the space is skipped
ValidateEntryLenient(c) ==
    /\ pc[c] = "validate"
    /\ vidx[c] <= Len(context[c].items)
    /\ LET context_name == context[c].items[vidx[c]][1]
           context_value == context[c].items[vidx[c]][2]
       IN  IF context_name \notin ParameterNames(space)
           THEN /\ vidx' = [vidx EXCEPT ![c] = @ + 1]
                /\ UNCHANGED <<diag, pc, error>>
           ELSE /\ diag' = [diag EXCEPT ![c] = Append(@,
                        IF CheckInDomain(space, context_name, context_value) = FALSE
                        THEN WarningRecord(context_name, context_value)
                        ELSE InfoRecord(context_name, context_value))]
                /\ vidx' = [vidx EXCEPT ![c] = @ + 1]
                /\ UNCHANGED <<pc, error>>
    /\ UNCHANGED <<shared, entryVars, context_manager, hookVars, postVars>>

\* variant of ValidateEntry: the domain check and its record come before the
\* name check
ValidateEntryDomainFirst(c) ==
    /\ pc[c] = "validate"
    /\ vidx[c] <= Len(context[c].items)
    /\ LET context_name == context[c].items[vidx[c]][1]
           context_value == context[c].items[vidx[c]][2]
       IN  /\ diag' = [diag EXCEPT ![c] = Append(@,
                        IF CheckInDomain(space, context_name, context_value) = FALSE
                        THEN WarningRecord(context_name, context_value)
                        ELSE InfoRecord(context_name, context_value))]
           /\ IF context_name \notin ParameterNames(space)
              THEN /\ error' = [error EXCEPT ![c] = [kind |-> "ValueError", key |-> context_name]]
                   /\ pc' = [pc EXCEPT ![c] = "raised"]
                   /\ UNCHANGED vidx
              ELSE /\ vidx' = [vidx EXCEPT ![c] = @ + 1]
                   /\ UNCHANGED <<pc, error>>
    /\ UNCHANGED <<shared, entryVars, context_manager, hookVars, postVars>>

\* variant of ValidateEntry: an out-of-domain value is rejected
ValidateEntryStrict(c) ==
    /\ pc[c] = "validate"
    /\ vidx[c] <= Len(context[c].items)
    /\ LET context_name == context[c].items[vidx[c]][1]
           context_value == context[c].items[vidx[c]][2]
       IN  IF \/ context_name \notin ParameterNames(space)
              \/ CheckInDomain(space, context_name, context_value) = FALSE
           THEN /\ error' = [error EXCEPT ![c] = [kind |-> "ValueError", key |-> context_name]]
                /\ pc' = [pc EXCEPT ![c] = "raised"]
                /\ UNCHANGED validVars
           ELSE /\ diag' = [diag EXCEPT ![c] =
                               Append(@, InfoRecord(context_name, context_value))]
                /\ vidx' = [vidx EXCEPT ![c] = @ + 1]
                /\ UNCHANGED <<pc, error>>
    /\ UNCHANGED <<shared, entryVars, context_manager, hookVars, postVars>>

\* _validate_context_parameters, lines 23-33: one iteration of the loop
ValidateEntry(c) ==
    /\ pc[c] = "validate"
    /\ vidx[c] <= Len(context[c].items)
    /\ LET context_name == context[c].items[vidx[c]][1]
           context_value == context[c].items[vidx[c]][2]
       IN  IF context_name \notin ParameterNames(space)
           THEN /\ error' = [error EXCEPT ![c] = [kind |-> "ValueError", key |-> context_name]]
                /\ pc' = [pc EXCEPT ![c] = "raised"]
                /\ UNCHANGED validVars
           ELSE /\ diag' = [diag EXCEPT ![c] = Append(@,
                        IF CheckInDomain(space, context_name, context_value) = FALSE
                        THEN WarningRecord(context_name, context_value)
                        ELSE InfoRecord(context_name, context_value))]
                /\ vidx' = [vidx EXCEPT ![c] = @ + 1]
                /\ UNCHANGED <<pc, error>>
    /\ UNCHANGED <<shared, entryVars, context_manager, hookVars, postVars>>

\* _validate_context_parameters, line 23: the loop is exhausted, the helper returns
ValidateReturn(c) ==
    /\ pc[c] = "validate"
    /\ vidx[c] > Len(context[c].items)
    /\ pc' = [pc EXCEPT ![c] = "build"]
    /\ UNCHANGED <<shared, entryVars, validVars, context_manager, hookVars, postVars, error>>

\* optimize, line 61
BuildContextManager(c) ==
    /\ pc[c] = "build"
    /\ context_manager' = [context_manager EXCEPT ![c] =
                               ContextManager(space, context[c], gpyopt_space)]
    /\ pc' = [pc EXCEPT ![c] = "search"]
    /\ UNCHANGED <<shared, entryVars, validVars, hookVars, postVars, error>>

\* variant of SearchReturns: the hook's pair is kept on the instance, where
\* every running call reads it
SearchReturnsOnSelf(c, x, v) ==
    /\ pc[c] = "search"
    /\ hookCalls' = [hookCalls EXCEPT ![c] = @ + 1]
    /\ max_x' = [d \in Calls |-> x]
    /\ max_value' = [d \in Calls |-> v]
    /\ hookOut' = [hookOut EXCEPT ![c] = HookPair(x, v)]
    /\ pc' = [pc EXCEPT ![c] = "round"]
    /\ UNCHANGED <<shared, entryVars, validVars, context_manager, postVars, error>>

\* optimize, line 62: the hook returns a location and a value of its own
SearchReturns(c, x, v) ==
    /\ pc[c] = "search"
    /\ hookCalls' = [hookCalls EXCEPT ![c] = @ + 1]
    /\ max_x' = [max_x EXCEPT ![c] = x]
    /\ max_value' = [max_value EXCEPT ![c] = v]
    /\ hookOut' = [hookOut EXCEPT ![c] = HookPair(x, v)]
    /\ pc' = [pc EXCEPT ![c] = "round"]
    /\ UNCHANGED <<shared, entryVars, validVars, context_manager, postVars, error>>

\* optimize, line 62: the hook returns a location and the acquisition's value there
SearchEvaluates(c, x) ==
    /\ pc[c] = "search"
    /\ hookCalls' = [hookCalls EXCEPT ![c] = @ + 1]
    /\ max_x' = [max_x EXCEPT ![c] = x]
    /\ max_value' = [max_value EXCEPT ![c] =
                         Evaluate(acquisition[c], acqState[acquisition[c]], x)]
    /\ hookOut' = [hookOut EXCEPT ![c] =
                       HookPair(x, Evaluate(acquisition[c], acqState[acquisition[c]], x))]
    /\ acqState' = [acqState EXCEPT ![acquisition[c]] = @ + 1]
    /\ pc' = [pc EXCEPT ![c] = "round"]
    /\ UNCHANGED <<space, gpyopt_space, nextObj, entryVars, validVars,
                   context_manager, postVars, error>>

\* variant of SearchFails: the failure is caught and the search attempted again
SearchFailsRetried(c, f) ==
    /\ pc[c] = "search"
    /\ hookCalls' = [hookCalls EXCEPT ![c] = @ + 1]
    /\ UNCHANGED <<shared, pc, entryVars, validVars, context_manager, hookOut, max_x,
                   max_value, postVars, error>>

\* optimize, line 62: the hook raises; optimize has no handler
SearchFails(c, f) ==
    /\ pc[c] = "search"
    /\ hookCalls' = [hookCalls EXCEPT ![c] = @ + 1]
    /\ hookOut' = [hookOut EXCEPT ![c] = HookRaise(f)]
    /\ error' = [error EXCEPT ![c] = [kind |-> f, key |-> ""]]
    /\ pc' = [pc EXCEPT ![c] = "raised"]
    /\ UNCHANGED <<shared, entryVars, validVars, context_manager, max_x, max_value,
                   postVars>>

\* optimize, line 66
Round(c) ==
    /\ pc[c] = "round"
    /\ roundArgs' = [roundArgs EXCEPT ![c] = Append(@, max_x[c])]
    /\ rounded_max_x' = [rounded_max_x EXCEPT ![c] = SpaceRound(max_x[c])]
    /\ pc' = [pc EXCEPT ![c] = "compare"]
    /\ UNCHANGED <<shared, entryVars, validVars, context_manager, hookVars,
                   evalArgs, evalIndex, result, error>>

\* variant of Return: the acquisition is evaluated at the hook's location
ReturnEvaluatesUnrounded(c) ==
    /\ pc[c] = "compare"
    /\ IF ~ArrayEqual(max_x[c], rounded_max_x[c])
       THEN /\ evalArgs' = [evalArgs EXCEPT ![c] = Append(@, max_x[c])]
            /\ evalIndex' = [evalIndex EXCEPT ![c] = Append(@, acqState[acquisition[c]])]
            /\ result' = [result EXCEPT ![c] =
                   <<rounded_max_x[c],
                     Evaluate(acquisition[c], acqState[acquisition[c]], max_x[c])>>]
            /\ acqState' = [acqState EXCEPT ![acquisition[c]] = @ + 1]
       ELSE /\ result' = [result EXCEPT ![c] = <<max_x[c], max_value[c]>>]
            /\ UNCHANGED <<evalArgs, evalIndex, acqState>>
    /\ pc' = [pc EXCEPT ![c] = "done"]
    /\ UNCHANGED <<space, gpyopt_space, nextObj, entryVars, validVars, context_manager,
                   hookVars, roundArgs, rounded_max_x, error>>

\* variant of Return: the value is always evaluated again
ReturnAlwaysEvaluates(c) ==
    /\ pc[c] = "compare"
    /\ IF TRUE
       THEN /\ evalArgs' = [evalArgs EXCEPT ![c] = Append(@, rounded_max_x[c])]
            /\ evalIndex' = [evalIndex EXCEPT ![c] = Append(@, acqState[acquisition[c]])]
            /\ result' = [result EXCEPT ![c] =
                   <<rounded_max_x[c],
                     Evaluate(acquisition[c], acqState[acquisition[c]], rounded_max_x[c])>>]
            /\ acqState' = [acqState EXCEPT ![acquisition[c]] = @ + 1]
       ELSE /\ result' = [result EXCEPT ![c] = <<max_x[c], max_value[c]>>]
            /\ UNCHANGED <<evalArgs, evalIndex, acqState>>
    /\ pc' = [pc EXCEPT ![c] = "done"]
    /\ UNCHANGED <<space, gpyopt_space, nextObj, entryVars, validVars, context_manager,
                   hookVars, roundArgs, rounded_max_x, error>>

\* variant of Return: the hook's location is returned
ReturnUnrounded(c) ==
    /\ pc[c] = "compare"
    /\ IF ~ArrayEqual(max_x[c], rounded_max_x[c])
       THEN /\ evalArgs' = [evalArgs EXCEPT ![c] = Append(@, rounded_max_x[c])]
            /\ evalIndex' = [evalIndex EXCEPT ![c] = Append(@, acqState[acquisition[c]])]
            /\ result' = [result EXCEPT ![c] =
                   <<max_x[c],
                     Evaluate(acquisition[c], acqState[acquisition[c]], rounded_max_x[c])>>]
            /\ acqState' = [acqState EXCEPT ![acquisition[c]] = @ + 1]
       ELSE /\ result' = [result EXCEPT ![c] = <<max_x[c], max_value[c]>>]
            /\ UNCHANGED <<evalArgs, evalIndex, acqState>>
    /\ pc' = [pc EXCEPT ![c] = "done"]
    /\ UNCHANGED <<space, gpyopt_space, nextObj, entryVars, validVars, context_manager,
                   hookVars, roundArgs, rounded_max_x, error>>

\* variant of Return: the hook's value is kept after rounding
ReturnHookValue(c) ==
    /\ pc[c] = "compare"
    /\ IF FALSE
       THEN /\ evalArgs' = [evalArgs EXCEPT ![c] = Append(@, rounded_max_x[c])]
            /\ evalIndex' = [evalIndex EXCEPT ![c] = Append(@, acqState[acquisition[c]])]
            /\ result' = [result EXCEPT ![c] =
                   <<rounded_max_x[c],
                     Evaluate(acquisition[c], acqState[acquisition[c]], rounded_max_x[c])>>]
            /\ acqState' = [acqState EXCEPT ![acquisition[c]] = @ + 1]
       ELSE /\ result' = [result EXCEPT ![c] = <<rounded_max_x[c], max_value[c]>>]
            /\ UNCHANGED <<evalArgs, evalIndex, acqState>>
    /\ pc' = [pc EXCEPT ![c] = "done"]
    /\ UNCHANGED <<space, gpyopt_space, nextObj, entryVars, validVars, context_manager,
                   hookVars, roundArgs, rounded_max_x, error>>

\* optimize, lines 68-72
Return(c) ==
    /\ pc[c] = "compare"
    /\ IF ~ArrayEqual(max_x[c], rounded_max_x[c])
       THEN /\ evalArgs' = [evalArgs EXCEPT ![c] = Append(@, rounded_max_x[c])]
            /\ evalIndex' = [evalIndex EXCEPT ![c] = Append(@, acqState[acquisition[c]])]
            /\ result' = [result EXCEPT ![c] =
                   <<rounded_max_x[c],
                     Evaluate(acquisition[c], acqState[acquisition[c]], rounded_max_x[c])>>]
            /\ acqState' = [acqState EXCEPT ![acquisition[c]] = @ + 1]
       ELSE /\ result' = [result EXCEPT ![c] = <<max_x[c], max_value[c]>>]
            /\ UNCHANGED <<evalArgs, evalIndex, acqState>>
    /\ pc' = [pc EXCEPT ![c] = "done"]
    /\ UNCHANGED <<space, gpyopt_space, nextObj, entryVars, validVars, context_manager,
                   hookVars, roundArgs, rounded_max_x, error>>

\* one optimize call on the instance
Next ==
    \E c \in SoloCalls :
        \/ \E acq \in Acquisitions, ctx \in Contexts : Optimize(c, acq, ctx)
        \/ ValidateEntry(c)
        \/ ValidateReturn(c)
        \/ BuildContextManager(c)
        \/ \E x \in HookPoints, v \in HookValues : SearchReturns(c, x, v)
        \/ \E x \in HookPoints : SearchEvaluates(c, x)
        \/ \E f \in HookFailures : SearchFails(c, f)
        \/ Round(c)
        \/ Return(c)

Spec == Init /\ [][Next]_vars

\* NumCalls optimize calls on the instance, arbitrarily interleaved
NextConc ==
    \E c \in Calls :
        \/ \E acq \in ConcAcquisitions, ctx \in ConcContexts : Optimize(c, acq, ctx)
        \/ ValidateEntry(c)
        \/ ValidateReturn(c)
        \/ BuildContextManager(c)
        \/ \E x \in ConcHookPoints, v \in ConcHookValues : SearchReturns(c, x, v)
        \/ \E x \in ConcEvalPoints : SearchEvaluates(c, x)
        \/ \E f \in ConcHookFailures : SearchFails(c, f)
        \/ Round(c)
        \/ Return(c)

SpecConc == Init /\ [][NextConc]_vars

\* ------------------------------------------------------- claim vocabulary
Started(c) == pc[c] # "idle"

Unknown(name) == name \notin {"x", "y"}

HasUnknownKey(items) == \E i \in DOMAIN items : Unknown(items[i][1])

FirstUnknown(items) ==
    CHOOSE i \in DOMAIN items :
        Unknown(items[i][1]) /\ \A j \in 1..(i - 1) : ~Unknown(items[j][1])

OutOfDomain(value) == value < 0 \/ value > GridMax

Returned(c) == pc[c] = "done"

\* the location the hook handed back is off the grid
Moved(c) == hookOut[c].status = "returned" /\ SpaceRound(hookOut[c].x) # hookOut[c].x

\* some evaluate call on the acquisition yields v at x
ScoreAt(acq, x, v) == \E k \in 0..(2 * NumCalls) : v = Evaluate(acq, k, x)

\* C1: a context with a key that is not a parameter name makes optimize raise
\* the invalid-context error before any search work: the call never gets past
\* validation, the hook is never invoked, no ContextManager is built, neither
\* space.round nor acquisition.evaluate is called and nothing is returned.
C1_InvalidContextFailsFast ==
    \A c \in Calls :
        (Started(c) /\ ctxArg[c].given /\ HasUnknownKey(ctxArg[c].items)) =>
            /\ pc[c] \in {"validate", "raised"}
            /\ pc[c] = "raised" => error[c].kind = "ValueError"
            /\ hookCalls[c] = 0
            /\ hookOut[c].status = "none"
            /\ ~context_manager[c].built
            /\ roundArgs[c] = <<>>
            /\ evalArgs[c] = <<>>
            /\ acqState[acquisition[c]] = 0
            /\ result[c] = <<>>

C1_Witness ==
    \E c \in Calls :
        /\ pc[c] = "raised"
        /\ error[c].kind = "ValueError"
        /\ Len(ctxArg[c].items) = 2
        /\ ~Unknown(ctxArg[c].items[1][1])

\* C2: when the hook's location is off the grid, optimize returns the rounded
\* location with the value of acquisition.evaluate at the rounded location;
\* the one evaluate call optimize makes is at the rounded location and the
\* hook's own value is discarded.
C2_RoundingCorrection ==
    \A c \in Calls :
        (Returned(c) /\ Moved(c)) =>
            /\ evalArgs[c] = <<SpaceRound(hookOut[c].x)>>
            /\ Len(evalIndex[c]) = 1
            /\ result[c] = <<SpaceRound(hookOut[c].x),
                             Evaluate(acquisition[c], evalIndex[c][1],
                                      SpaceRound(hookOut[c].x))>>

C2_Witness ==
    \E c \in Calls :
        /\ Returned(c)
        /\ hookOut[c].x = <<34, 50>>
        /\ hookOut[c].value = 999
        /\ result[c] = <<<<30, 50>>, 80>>

\* C3: when the hook's location is already on the grid, optimize returns the
\* hook's pair exactly and makes no evaluate call of its own.
C3_OnGridKeepsHookPair ==
    \A c \in Calls :
        (Returned(c) /\ ~Moved(c)) =>
            /\ result[c] = <<hookOut[c].x, hookOut[c].value>>
            /\ evalArgs[c] = <<>>
            /\ evalIndex[c] = <<>>

C3_Witness ==
    \E c \in Calls :
        /\ Returned(c)
        /\ ~Moved(c)
        /\ acquisition[c] = "counting"
        /\ acqState["counting"] = 1
        /\ result[c] = <<<<30, 50>>, 81>>

\* C4: the location optimize returns is a valid encoding of the design space:
\* it is space.round of the hook's location, on-grid or off-grid.
C4_ReturnedLocationValid ==
    \A c \in Calls :
        Returned(c) =>
            /\ result[c][1] \in ValidEncodings
            /\ result[c][1] = SpaceRound(hookOut[c].x)

C4_Witness ==
    \E c \in Calls :
        /\ Returned(c)
        /\ hookOut[c].x = <<104, 50>>
        /\ result[c][1] = <<100, 50>>

\* C5 as stated: the returned value is acquisition.evaluate at the returned
\* location for every hook result.
C5_ValueIsScoreAtLocation ==
    \A c \in Calls :
        Returned(c) => ScoreAt(acquisition[c], result[c][1], result[c][2])

\* C5 amended: the returned value is an acquisition score at the returned
\* location whenever rounding moved the location or the hook's reported value
\* was an acquisition score at the hook's location; otherwise it is the
\* hook's reported value.
C5_ValueIsScoreWhenHookTruthful ==
    \A c \in Calls :
        Returned(c) =>
            IF Moved(c) \/ ScoreAt(acquisition[c], hookOut[c].x, hookOut[c].value)
            THEN ScoreAt(acquisition[c], result[c][1], result[c][2])
            ELSE result[c][2] = hookOut[c].value

C5_Witness ==
    \E c \in Calls :
        /\ Returned(c)
        /\ ~Moved(c)
        /\ ~ScoreAt(acquisition[c], hookOut[c].x, hookOut[c].value)
        /\ result[c][2] = 999

\* C6: a context whose keys are all parameter names never raises the
\* invalid-context error, also with out-of-domain values: validation runs to
\* its end, hands one record per entry to the log (WARNING for an
\* out-of-domain value, INFO otherwise), the ContextManager gets the context
\* unchanged, and the hook is invoked only after that.
C6_ValidKeysAccepted ==
    \A c \in Calls :
        (Started(c) /\ ctxArg[c].given /\ ~HasUnknownKey(ctxArg[c].items)) =>
            /\ error[c].kind # "ValueError"
            /\ context[c].items = ctxArg[c].items
            /\ pc[c] # "validate" =>
                  /\ Len(diag[c]) = Len(ctxArg[c].items)
                  /\ \A i \in DOMAIN diag[c] :
                        /\ diag[c][i].name = ctxArg[c].items[i][1]
                        /\ diag[c][i].value = ctxArg[c].items[i][2]
                        /\ diag[c][i].level =
                              IF OutOfDomain(ctxArg[c].items[i][2])
                              THEN "WARNING" ELSE "INFO"
            /\ pc[c] \notin {"validate", "build"} =>
                  /\ context_manager[c].built
                  /\ context_manager[c].context.items = ctxArg[c].items
            /\ hookCalls[c] > 0 => context_manager[c].built
            /\ pc[c] = "raised" => hookOut[c].status = "raised"

C6_Witness ==
    \E c \in Calls :
        /\ Returned(c)
        /\ ctxArg[c] = Given(<<<<"y", 110>>, <<"x", 30>>>>)
        /\ diag[c][1].level = "WARNING"
        /\ diag[c][2].level = "INFO"
        /\ hookCalls[c] = 1

\* what a caller and the collaborators can see of a call, apart from the
\* identity of the context object
Observable(c) ==
    <<diag[c], context[c].items, context_manager[c].built,
      IF context_manager[c].built THEN context_manager[c].context.items ELSE <<>>,
      IF context_manager[c].built THEN context_manager[c].fixed ELSE {},
      hookCalls[c], roundArgs[c], evalArgs[c], result[c], error[c]>>

\* C7: optimize with no context behaves as optimize with an empty mapping: no
\* validation error and no diagnostic, a ContextManager with an empty context
\* and no fixed dimension, and, for the same acquisition and hook outcome,
\* the same calls and the same result; the mapping that stands for an absent
\* context is a new object in every call.
C7_DefaultContextIsEmpty ==
    /\ \A c \in Calls :
          (Started(c) /\ ctxArg[c] \in {None, Given(<<>>)}) =>
              /\ diag[c] = <<>>
              /\ error[c].kind # "ValueError"
              /\ context[c].items = <<>>
              /\ pc[c] \notin {"validate", "build"} =>
                    /\ context_manager[c].built
                    /\ context_manager[c].context.items = <<>>
                    /\ context_manager[c].fixed = {}
    /\ \A c, d \in Calls :
          (/\ ctxArg[c] = None /\ ctxArg[d] = Given(<<>>)
           /\ pc[c] = pc[d] /\ pc[c] \notin {"idle", "validate"}
           /\ acquisition[c] = acquisition[d]
           /\ hookOut[c] = hookOut[d]
           /\ evalIndex[c] = evalIndex[d]) =>
              Observable(c) = Observable(d)
    /\ \A c, d \in Calls :
          (c # d /\ Started(c) /\ Started(d) /\ ~ctxArg[c].given) =>
              /\ context[c].id # CallerObj
              /\ context[c].id # context[d].id

C7_Witness ==
    \E c, d \in Calls :
        /\ ctxArg[c] = None /\ ctxArg[d] = Given(<<>>)
        /\ Returned(c) /\ Returned(d)
        /\ acquisition[c] = "sum" /\ acquisition[d] = "sum"
        /\ hookOut[c] = hookOut[d]
        /\ Moved(c)
        /\ result[c] = result[d]

\* C8: a failure of the hook leaves optimize as the same failure; the hook is
\* invoked at most once per call, and after a hook failure neither
\* space.round nor acquisition.evaluate is called and nothing is returned.
C8_HookFailurePropagates ==
    \A c \in Calls :
        /\ hookCalls[c] <= 1
        /\ hookOut[c].status = "raised" =>
              /\ pc[c] = "raised"
              /\ error[c] = [kind |-> hookOut[c].failure, key |-> ""]
              /\ hookCalls[c] = 1
              /\ roundArgs[c] = <<>>
              /\ evalArgs[c] = <<>>
              /\ result[c] = <<>>

C8_Witness ==
    \E c \in Calls :
        /\ hookOut[c].status = "raised"
        /\ error[c].kind = "LinAlgError"
        /\ context_manager[c].built

\* the pair a call returns when it runs alone with a stateless acquisition
SoloResult(acq, out) ==
    IF SpaceRound(out.x) # out.x
    THEN <<SpaceRound(out.x), Evaluate(acq, 0, SpaceRound(out.x))>>
    ELSE <<out.x, out.value>>

\* C9: interleaved optimize calls on one instance do not interfere: space and
\* gpyopt_space keep the values the constructor gave them, every call's
\* ContextManager is built from that call's own context, and with a
\* stateless acquisition every call returns what it returns when run alone.
C9_ConcurrentCallsIndependent ==
    /\ space = TheSpace
    /\ gpyopt_space = ConvertToGpyoptDesignSpace(TheSpace)
    /\ \A c \in Calls :
          /\ context_manager[c].built =>
                /\ context_manager[c].context = context[c]
                /\ context_manager[c].context.items = ctxArg[c].items
                /\ context_manager[c].gpyopt_space = ConvertToGpyoptDesignSpace(TheSpace)
          /\ (Returned(c) /\ Stateless(acquisition[c])) =>
                result[c] = SoloResult(acquisition[c], hookOut[c])

C9_Witness ==
    \E c, d \in Calls :
        /\ c # d
        /\ Returned(c) /\ pc[d] = "compare"
        /\ Stateless(acquisition[c]) /\ acquisition[d] = "counting"
        /\ Moved(c) /\ ~Moved(d)
        /\ context[c].items # context[d].items

\* C10: validation examines the entries in iteration order: a record is
\* handed to the log for exactly the entries before the current position,
\* each of them a parameter name; the error is raised at the first key that
\* is not a parameter name and names it, and nothing after it is examined.
C10_ValidationOrder ==
    \A c \in Calls :
        (Started(c) /\ ctxArg[c].given) =>
            /\ Len(diag[c]) = vidx[c] - 1
            /\ \A i \in DOMAIN diag[c] :
                  /\ diag[c][i].name = ctxArg[c].items[i][1]
                  /\ ~Unknown(diag[c][i].name)
            /\ error[c].kind = "ValueError" =>
                  /\ HasUnknownKey(ctxArg[c].items)
                  /\ vidx[c] = FirstUnknown(ctxArg[c].items)
                  /\ error[c].key = ctxArg[c].items[vidx[c]][1]
                  /\ Unknown(error[c].key)

C10_Witness ==
    \E c \in Calls :
        /\ error[c].kind = "ValueError"
        /\ ctxArg[c].items = <<<<"x", 110>>, <<"z", 30>>>>
        /\ Len(diag[c]) = 1
====
